---- MODULE Spec2Model ----
(***************************************************************************)
(* A model of the expression engine of quil-rust: Expression::evaluate,    *)
(* Expression::evaluate_to_complex (src/src/expression.rs) and the         *)
(* algebraic simplification entry point (expression/simplification).       *)
(*                                                                         *)
(* Complex64 values are modelled as records.  A value is "exact" (a        *)
(* Gaussian integer, on which IEEE-754 arithmetic is exact), "nan" (a      *)
(* value with a NaN component), or "float": the result of a floating       *)
(* point computation that is not a small integer, kept as the term that    *)
(* computed it (finite and non-zero).  Equality of values is equality of   *)
(* these records.                                                          *)
(***************************************************************************)
EXTENDS Integers, Sequences, FiniteSets, TLC

VARIABLES expression, environment, patch_values, powc_build, op, input, result,
          text, parsed,
          instructions, position, graph, last_instruction_for_qubit, built, depth,
          fold_stack, current, fold_values, calls, fold_result, failing,
          frames, condition, matched,
          ident, validity

\* The state of the expression engine, of rendering and parsing, of the
\* execution graph engine, of a path fold over a built graph, of a frame
\* query and of an identifier validation.
expression_vars == <<expression, environment, patch_values, powc_build, input, result>>

render_vars == <<text, parsed>>

graph_vars == <<instructions, position, graph, last_instruction_for_qubit, built, depth>>

fold_vars == <<fold_stack, current, fold_values, calls, fold_result, failing>>

frame_vars == <<frames, condition, matched>>

identifier_vars == <<ident, validity>>

vars == <<expression_vars, op, render_vars, graph_vars, fold_vars, frame_vars, identifier_vars>>

(***************************************************************************)
(* Bounds of the model.                                                    *)
(***************************************************************************)
MaxNodes == 3
MaxRe == 1
MaxIm == 1
MaxIndex == 1
MaxPatch == 1

(***************************************************************************)
(* num_complex::Complex64                                                  *)
(***************************************************************************)
Exact(re, im) == [t |-> "exact", re |-> re, im |-> im, fn |-> "", args |-> <<>>]

NaN == [t |-> "nan", re |-> 0, im |-> 0, fn |-> "", args |-> <<>>]

Float(fn, args) == [t |-> "float", re |-> 0, im |-> 0, fn |-> fn, args |-> args]

ZERO == Exact(0, 0)

ONE == Exact(1, 0)

real(x) == Exact(x, 0)

PI == Float("PI", <<>>)

IsExact(v) == v.t = "exact"

IsNaN(v) == v.t = "nan"

Neg(v) ==
    IF IsExact(v) THEN Exact(0 - v.re, 0 - v.im)
    ELSE IF IsNaN(v) THEN NaN
    ELSE IF v.fn = "neg" THEN v.args[1]
    ELSE Float("neg", <<v>>)

Add(l, r) ==
    IF IsNaN(l) \/ IsNaN(r) THEN NaN
    ELSE IF IsExact(l) /\ IsExact(r) THEN Exact(l.re + r.re, l.im + r.im)
    ELSE IF l = ZERO THEN r
    ELSE IF r = ZERO THEN l
    ELSE IF l = Neg(r) THEN ZERO
    ELSE Float("add", <<l, r>>)

Sub(l, r) ==
    IF IsNaN(l) \/ IsNaN(r) THEN NaN
    ELSE IF IsExact(l) /\ IsExact(r) THEN Exact(l.re - r.re, l.im - r.im)
    ELSE IF r = ZERO THEN l
    ELSE IF l = ZERO THEN Neg(r)
    ELSE IF l = r THEN ZERO
    ELSE Float("sub", <<l, r>>)

Mul(l, r) ==
    IF IsNaN(l) \/ IsNaN(r) THEN NaN
    ELSE IF IsExact(l) /\ IsExact(r)
         THEN Exact(l.re * r.re - l.im * r.im, l.re * r.im + l.im * r.re)
    ELSE IF l = ZERO \/ r = ZERO THEN ZERO
    ELSE IF l = ONE THEN r
    ELSE IF r = ONE THEN l
    ELSE Float("mul", <<l, r>>)

\* Integer division rounding toward negative infinity is exact when d divides n.
Divides(d, n) == d # 0 /\ n % (IF d < 0 THEN 0 - d ELSE d) = 0

Quot(n, d) == IF d < 0 THEN (0 - n) \div (0 - d) ELSE n \div d

\* Complex division computes (l * conj(r)) / |r|^2 component-wise; a zero
\* divisor gives 0/0 in both components.
Div(l, r) ==
    IF IsNaN(l) \/ IsNaN(r) THEN NaN
    ELSE IF r = ZERO THEN NaN
    ELSE IF r = ONE THEN l
    ELSE IF l = ZERO THEN ZERO
    ELSE IF l = r THEN ONE
    ELSE IF IsExact(l) /\ IsExact(r)
         THEN LET n == r.re * r.re + r.im * r.im
                  a == l.re * r.re + l.im * r.im
                  b == l.im * r.re - l.re * r.im
              IN  IF Divides(n, a) /\ Divides(n, b)
                  THEN Exact(Quot(a, n), Quot(b, n))
                  ELSE Float("div", <<l, r>>)
    ELSE Float("div", <<l, r>>)

\* Complex64::powc.  The library computes it either in polar form
\* (from_polar(r^c * e^(-d*theta), c*theta + d*ln r)) or as exp(y * ln x)
\* guarded by an early return of one for a zero exponent; the two differ
\* on a zero base, so the build in use is a parameter of the model.
PowcBuilds == {"polar", "exp_ln"}

powc(l, r) ==
    IF powc_build = "exp_ln" /\ r = ZERO THEN ONE
    ELSE IF IsNaN(l) \/ IsNaN(r) THEN NaN
    ELSE IF l = ZERO
         THEN IF powc_build = "exp_ln" /\ IsExact(r) /\ r.re > 0 THEN ZERO ELSE NaN
    ELSE IF r = ZERO THEN ONE
    ELSE IF l = ONE THEN ONE
    ELSE Float("powc", <<l, r>>)

IsSquare(n) == n >= 0 /\ \E k \in 0..n : k * k = n

Root(n) == CHOOSE k \in 0..n : k * k = n

sin(v) ==
    IF IsNaN(v) THEN NaN ELSE IF v = ZERO THEN ZERO ELSE Float("sin", <<v>>)

cos(v) ==
    IF IsNaN(v) THEN NaN ELSE IF v = ZERO THEN ONE ELSE Float("cos", <<v>>)

exp(v) ==
    IF IsNaN(v) THEN NaN ELSE IF v = ZERO THEN ONE ELSE Float("exp", <<v>>)

sqrt(v) ==
    IF IsNaN(v) THEN NaN
    ELSE IF IsExact(v) /\ v.im = 0 /\ IsSquare(v.re) THEN real(Root(v.re))
    ELSE Float("sqrt", <<v>>)

(***************************************************************************)
(* Expression                                                              *)
(***************************************************************************)
Number(v) == [k |-> "Number", value |-> v]

PiConstant == [k |-> "PiConstant"]

Variable(identifier) == [k |-> "Variable", identifier |-> identifier]

Address(name, index) == [k |-> "Address", name |-> name, index |-> index]

FunctionCall(function, e) ==
    [k |-> "FunctionCall", function |-> function, expression |-> e]

Infix(left, operator, right) ==
    [k |-> "Infix", left |-> left, operator |-> operator, right |-> right]

Prefix(operator, e) ==
    [k |-> "Prefix", prefix |-> operator, expression |-> e]

ExpressionFunction == {"Cis", "Cosine", "Exponent", "Sine", "SquareRoot"}

PrefixOperator == {"Plus", "Minus"}

InfixOperator == {"Caret", "Plus", "Minus", "Slash", "Star"}

calculate_infix(left, operator, right) ==
    CASE operator = "Caret" -> powc(left, right)
      [] operator = "Plus"  -> Add(left, right)
      [] operator = "Minus" -> Sub(left, right)
      [] operator = "Slash" -> Div(left, right)
      [] operator = "Star"  -> Mul(left, right)

calculate_function(function, argument) ==
    CASE function = "Sine"       -> sin(argument)
      [] function = "Cis"        -> Add(cos(argument), Mul(Exact(0, 1), sin(argument)))
      [] function = "Cosine"     -> cos(argument)
      [] function = "Exponent"   -> exp(argument)
      [] function = "SquareRoot" -> sqrt(argument)

(***************************************************************************)
(* Patch values: Option<&HashMap<&str, Vec<f64>>>                          *)
(***************************************************************************)
None == [k |-> "None"]

Some(table) == [k |-> "Some", table |-> table]

\* The arms of Expression::evaluate, each applied to sub-expressions that
\* the caller has already evaluated where the code evaluates them.
EvaluateFunctionCall_SkipsPi(function, evaluated) ==
    CASE evaluated.k = "Number" -> Number(calculate_function(function, evaluated.value))
      [] OTHER -> FunctionCall(function, evaluated)

EvaluateFunctionCall(function, evaluated) ==
    CASE evaluated.k = "Number" -> Number(calculate_function(function, evaluated.value))
      [] evaluated.k = "PiConstant" -> Number(calculate_function(function, PI))
      [] OTHER -> FunctionCall(function, evaluated)

EvaluateInfix(left_evaluated, operator, right_evaluated) ==
    CASE left_evaluated.k = "Number" /\ right_evaluated.k = "Number" ->
            Number(calculate_infix(left_evaluated.value, operator, right_evaluated.value))
      [] left_evaluated.k = "PiConstant" /\ right_evaluated.k = "Number" ->
            Number(calculate_infix(PI, operator, right_evaluated.value))
      [] left_evaluated.k = "Number" /\ right_evaluated.k = "PiConstant" ->
            Number(calculate_infix(left_evaluated.value, operator, PI))
      [] OTHER -> Infix(left_evaluated, operator, right_evaluated)

EvaluatePrefix_DropsSign(operator, prefixed_expression) ==
    CASE operator = "Minus" /\ prefixed_expression.k = "Number" ->
            Number(Neg(prefixed_expression.value))
      [] operator = "Minus" /\ prefixed_expression.k = "PiConstant" -> Number(PI)
      [] operator = "Minus" /\ prefixed_expression.k \notin {"Number", "PiConstant"} ->
            Prefix(operator, prefixed_expression)
      [] operator = "Plus" -> prefixed_expression

EvaluatePrefix(operator, prefixed_expression) ==
    CASE operator = "Minus" /\ prefixed_expression.k = "Number" ->
            Number(Neg(prefixed_expression.value))
      [] operator = "Minus" /\ prefixed_expression.k = "PiConstant" ->
            Number(Neg(PI))
      [] operator = "Minus" /\ prefixed_expression.k \notin {"Number", "PiConstant"} ->
            Prefix(operator, prefixed_expression)
      [] operator = "Plus" -> prefixed_expression

EvaluateVariable_DefaultsToZero(identifier, env) ==
    IF identifier \in DOMAIN env
    THEN Number(env[identifier])
    ELSE Number(ZERO)

EvaluateVariable_Fails(identifier, env) ==
    IF identifier \in DOMAIN env
    THEN Number(env[identifier])
    ELSE [k |-> "Err", error |-> "Incomplete"]

EvaluateVariable(identifier, env) ==
    IF identifier \in DOMAIN env
    THEN Number(env[identifier])
    ELSE Variable(identifier)

EvaluateAddress_IgnoresIndex(memory_reference, patch) ==
    IF /\ patch.k = "Some"
       /\ memory_reference.name \in DOMAIN patch.table
       /\ 1 \in DOMAIN patch.table[memory_reference.name]
    THEN Number(real(patch.table[memory_reference.name][1]))
    ELSE Address(memory_reference.name, memory_reference.index)

EvaluateAddress(memory_reference, patch) ==
    IF /\ patch.k = "Some"
       /\ memory_reference.name \in DOMAIN patch.table
       /\ memory_reference.index + 1 \in DOMAIN patch.table[memory_reference.name]
    THEN Number(real(patch.table[memory_reference.name][memory_reference.index + 1]))
    ELSE Address(memory_reference.name, memory_reference.index)

RECURSIVE evaluate(_, _, _)
evaluate(self, env, patch) ==
    CASE self.k = "FunctionCall" ->
            EvaluateFunctionCall(self.function, evaluate(self.expression, env, patch))
      [] self.k = "Infix" ->
            EvaluateInfix(evaluate(self.left, env, patch), self.operator,
                          evaluate(self.right, env, patch))
      [] self.k = "Prefix" -> EvaluatePrefix(self.prefix, self.expression)
      [] self.k = "Variable" -> EvaluateVariable(self.identifier, env)
      [] self.k = "Address" -> EvaluateAddress(self, patch)
      [] self.k = "PiConstant" -> PiConstant
      [] self.k = "Number" -> Number(self.value)

Ok(v) == [k |-> "Ok", value |-> v]

Err(e) == [k |-> "Err", error |-> e]

evaluate_to_complex(self, env, patch) ==
    LET evaluated == evaluate(self, env, patch)
    IN  CASE evaluated.k = "Number" -> Ok(evaluated.value)
          [] evaluated.k = "PiConstant" -> Ok(PI)
          [] OTHER -> Err("Incomplete")

(***************************************************************************)
(* Simplification.  simplification::run delegates to by_hand::run, which   *)
(* rewrites bottom-up with the algebraic identities of the design:         *)
(* constant folding, identity elimination, self-cancellation,              *)
(* double-negation collapse, cross-cancellation and affine merging, in     *)
(* that priority.                                                          *)
(***************************************************************************)
IsConst(e) == e.k \in {"Number", "PiConstant"}

ConstValue(e) == IF e.k = "Number" THEN e.value ELSE PI

IsSymbol(e) == e.k \in {"Variable", "Address"}

IsZero(e) == e = Number(ZERO)

IsOne(e) == e = Number(ONE)

IsNegation(e) == e.k = "Prefix" /\ e.prefix = "Minus"

IsSum(e) == e.k = "Infix" /\ e.operator = "Plus"

IsProduct(e) == e.k = "Infix" /\ e.operator = "Star"

IsQuotient(e) == e.k = "Infix" /\ e.operator = "Slash"

simplify_function_call(function, simplified) ==
    IF IsConst(simplified)
    THEN Number(calculate_function(function, ConstValue(simplified)))
    ELSE FunctionCall(function, simplified)

simplify_prefix(operator, simplified) ==
    IF IsConst(simplified)
    THEN Number(IF operator = "Minus" THEN Neg(ConstValue(simplified))
                                      ELSE ConstValue(simplified))
    ELSE Prefix(operator, simplified)

\* simplify_infix receives operands that are already simplified and tries
\* the rewrite rules in priority order; a rewritten tree is rebuilt through
\* simplify_infix so that the rules apply to it again.
RECURSIVE simplify_infix(_, _, _)

\* (a1*x + b1) + (a2*x + b2) -> (a1 + a2)*x + (b1 + b2), and the degenerate
\* shapes with only the coefficient terms or only the constant terms.
merge_affine_Unfolded(l, o, r) ==
    IF o = "Plus" /\ IsSum(l) /\ IsSum(r) /\ IsProduct(l.left)
         /\ IsProduct(r.left) /\ l.left.right = r.left.right
    THEN Infix(Infix(Infix(l.left.left, "Plus", r.left.left), "Star", l.left.right),
               "Plus", Infix(l.right, "Plus", r.right))
    ELSE IF o = "Plus" /\ IsProduct(l) /\ IsProduct(r) /\ l.right = r.right
    THEN Infix(Infix(l.left, "Plus", r.left), "Star", l.right)
    ELSE IF o = "Plus" /\ IsSum(l) /\ IsSum(r) /\ l.left = r.left
    THEN Infix(Infix(Number(real(2)), "Star", l.left), "Plus",
               Infix(l.right, "Plus", r.right))
    ELSE Infix(l, o, r)

merge_affine(l, o, r) ==
    IF o = "Plus" /\ IsSum(l) /\ IsSum(r) /\ IsProduct(l.left)
         /\ IsProduct(r.left) /\ l.left.right = r.left.right
    THEN simplify_infix(
             simplify_infix(simplify_infix(l.left.left, "Plus", r.left.left),
                            "Star", l.left.right),
             "Plus", simplify_infix(l.right, "Plus", r.right))
    ELSE IF o = "Plus" /\ IsProduct(l) /\ IsProduct(r) /\ l.right = r.right
    THEN simplify_infix(simplify_infix(l.left, "Plus", r.left), "Star", l.right)
    ELSE IF o = "Plus" /\ IsSum(l) /\ IsSum(r) /\ l.left = r.left
    THEN simplify_infix(simplify_infix(Number(real(2)), "Star", l.left),
                        "Plus", simplify_infix(l.right, "Plus", r.right))
    ELSE Infix(l, o, r)

\* (y*x)/x -> y, (x*y)/x -> y, x/(y*x) -> 1/y, x/(x*y) -> 1/y,
\* (x/y)*y -> x, y*(x/y) -> x
cancel_cross(l, o, r) ==
    IF o = "Slash" /\ IsProduct(l) /\ l.right = r THEN l.left
    ELSE IF o = "Slash" /\ IsProduct(l) /\ l.left = r THEN l.right
    ELSE IF o = "Slash" /\ IsProduct(r) /\ r.right = l
         THEN simplify_infix(Number(ONE), "Slash", r.left)
    ELSE IF o = "Slash" /\ IsProduct(r) /\ r.left = l
         THEN simplify_infix(Number(ONE), "Slash", r.right)
    ELSE IF o = "Star" /\ IsQuotient(l) /\ l.right = r THEN l.left
    ELSE IF o = "Star" /\ IsQuotient(r) /\ r.right = l THEN r.left
    ELSE merge_affine(l, o, r)

\* x - (-y) -> x + y, (-x)*(-y) -> x*y, (-x)/(-y) -> x/y
collapse_negation(l, o, r) ==
    CASE o = "Minus" /\ IsNegation(r) -> simplify_infix(l, "Plus", r.expression)
      [] o \in {"Star", "Slash"} /\ IsNegation(l) /\ IsNegation(r) ->
            simplify_infix(l.expression, o, r.expression)
      [] OTHER -> cancel_cross(l, o, r)

\* x - x -> 0, x / x -> 1
cancel_self(l, o, r) ==
    CASE o = "Minus" /\ l = r -> Number(ZERO)
      [] o = "Slash" /\ l = r -> Number(ONE)
      [] OTHER -> collapse_negation(l, o, r)

\* x+0 -> x, 0+x -> x, x-0 -> x, x*0 -> 0, 0*x -> 0, x*1 -> x, 1*x -> x,
\* 0/x -> 0, x/1 -> x, x^0 -> 1, 0^x -> 0
eliminate_identity_PowerSwapped(l, o, r) ==
    IF o = "Plus" /\ IsZero(l) THEN r
    ELSE IF o = "Plus" /\ IsZero(r) THEN l
    ELSE IF o = "Minus" /\ IsZero(r) THEN l
    ELSE IF o = "Star" /\ (IsZero(l) \/ IsZero(r)) THEN Number(ZERO)
    ELSE IF o = "Star" /\ IsOne(l) THEN r
    ELSE IF o = "Star" /\ IsOne(r) THEN l
    ELSE IF o = "Slash" /\ IsZero(l) THEN Number(ZERO)
    ELSE IF o = "Slash" /\ IsOne(r) THEN l
    ELSE IF o = "Caret" /\ IsZero(r) THEN Number(ZERO)
    ELSE IF o = "Caret" /\ IsZero(l) THEN Number(ONE)
    ELSE cancel_self(l, o, r)

eliminate_identity(l, o, r) ==
    IF o = "Plus" /\ IsZero(l) THEN r
    ELSE IF o = "Plus" /\ IsZero(r) THEN l
    ELSE IF o = "Minus" /\ IsZero(r) THEN l
    ELSE IF o = "Star" /\ (IsZero(l) \/ IsZero(r)) THEN Number(ZERO)
    ELSE IF o = "Star" /\ IsOne(l) THEN r
    ELSE IF o = "Star" /\ IsOne(r) THEN l
    ELSE IF o = "Slash" /\ IsZero(l) THEN Number(ZERO)
    ELSE IF o = "Slash" /\ IsOne(r) THEN l
    ELSE IF o = "Caret" /\ IsZero(r) THEN Number(ONE)
    ELSE IF o = "Caret" /\ IsZero(l) THEN Number(ZERO)
    ELSE cancel_self(l, o, r)

\* a sub-tree with no free variable is folded to its value
fold_constant(l, o, r) ==
    IF IsConst(l) /\ IsConst(r)
    THEN Number(calculate_infix(ConstValue(l), o, ConstValue(r)))
    ELSE eliminate_identity(l, o, r)

simplify_infix(l, o, r) == fold_constant(l, o, r)

RECURSIVE simplify(_)
simplify(e) ==
    CASE e.k = "FunctionCall" ->
            simplify_function_call(e.function, simplify(e.expression))
      [] e.k = "Infix" -> simplify_infix(simplify(e.left), e.operator, simplify(e.right))
      [] e.k = "Prefix" -> simplify_prefix(e.prefix, simplify(e.expression))
      [] OTHER -> e

run(e) == simplify(e)

(***************************************************************************)
(* The inputs: expression trees of at most MaxNodes nodes over a small     *)
(* alphabet of leaves, environments and patch tables.                      *)
(***************************************************************************)
Identifiers == {"foo", "bar"}

Regions == {"theta"}

Literals == {Exact(re, im) : re \in 0..MaxRe, im \in 0..MaxIm}

Leaves ==
    {Number(v) : v \in Literals} \cup {PiConstant}
        \cup {Variable(n) : n \in Identifiers}
        \cup {Address(n, i) : n \in Regions, i \in 0..MaxIndex}

RECURSIVE Trees(_)
Trees(n) ==
    IF n = 1 THEN Leaves
    ELSE {FunctionCall(f, e) : f \in ExpressionFunction, e \in Trees(n - 1)}
           \cup {Prefix(o, e) : o \in PrefixOperator, e \in Trees(n - 1)}
           \cup UNION {{Infix(l, o, r) : l \in Trees(i), o \in InfixOperator,
                                         r \in Trees(n - 1 - i)} : i \in 1..(n - 2)}

\* Larger trees of the shapes the rewrite rules are about.
Terms == {Variable("foo"), Address("theta", 0), Address("theta", 1)}

Coefficients == {Number(real(2)), Variable("bar")}

NegationShapes ==
    {Infix(x, "Minus", Prefix("Minus", y)) : x \in Terms, y \in Terms}
        \cup {Infix(Prefix("Minus", x), o, Prefix("Minus", y)) :
                  x \in Terms, o \in {"Star", "Slash"}, y \in Terms}

CrossShapes ==
    UNION {{Infix(Infix(y, "Star", x), "Slash", x),
            Infix(Infix(x, "Star", y), "Slash", x),
            Infix(x, "Slash", Infix(y, "Star", x)),
            Infix(x, "Slash", Infix(x, "Star", y)),
            Infix(Infix(x, "Slash", y), "Star", y),
            Infix(y, "Star", Infix(x, "Slash", y))} :
              x \in Terms, y \in Terms \cup Coefficients}

AffineShapes ==
    UNION {{Infix(Infix(Infix(a1, "Star", x), "Plus", b1), "Plus",
                  Infix(Infix(a2, "Star", x), "Plus", b2)),
            Infix(Infix(a1, "Star", x), "Plus", Infix(a2, "Star", x)),
            Infix(Infix(x, "Plus", b1), "Plus", Infix(x, "Plus", b2))} :
              a1 \in Coefficients, a2 \in Coefficients,
              b1 \in Coefficients, b2 \in Coefficients, x \in Terms}

Shapes == NegationShapes \cup CrossShapes \cup AffineShapes

Expressions == UNION {Trees(n) : n \in 1..MaxNodes} \cup Shapes

Environments ==
    {<<>>, [n \in {"foo"} |-> ZERO], [n \in Identifiers |-> Exact(MaxRe + 1, MaxIm)]}

PatchTables ==
    {None, Some(<<>>)}
        \cup {Some([n \in Regions |-> [i \in 1..len |-> i - 1]]) : len \in 1..(MaxPatch + 1)}

NoResult == [k |-> "NoResult"]

\* The engines do not call each other: a run of one leaves the state of the
\* others at rest.
NoText == text = <<>> /\ parsed = NoResult

NoProgram ==
    /\ instructions = <<>>
    /\ position = 0
    /\ graph = NoResult
    /\ last_instruction_for_qubit = <<>>
    /\ built = NoResult
    /\ depth = NoResult

NoFold ==
    /\ fold_stack = <<>>
    /\ current = NoResult
    /\ fold_values = <<>>
    /\ calls = <<>>
    /\ fold_result = NoResult
    /\ failing = NoResult

NoFrames == frames = {} /\ condition = NoResult /\ matched = NoResult

NoIdentifier == ident = <<>> /\ validity = NoResult

Init ==
    /\ expression \in Expressions
    /\ environment \in Environments
    /\ patch_values \in PatchTables
    /\ powc_build \in PowcBuilds
    /\ op = "new"
    /\ input = expression
    /\ result = NoResult
    /\ NoText
    /\ NoProgram
    /\ NoFold
    /\ NoFrames
    /\ NoIdentifier

\* let evaluated = expression.evaluate(environment, patch_values)
Evaluate ==
    /\ op' = "evaluate"
    /\ input' = expression
    /\ expression' = evaluate(expression, environment, patch_values)
    /\ result' = NoResult
    /\ UNCHANGED <<environment, patch_values, powc_build, render_vars, graph_vars, fold_vars, frame_vars, identifier_vars>>

\* expression.evaluate_to_complex(environment, patch_values)
EvaluateToComplex ==
    /\ op' = "evaluate_to_complex"
    /\ input' = expression
    /\ result' = evaluate_to_complex(expression, environment, patch_values)
    /\ UNCHANGED <<expression, environment, patch_values, powc_build, render_vars, graph_vars, fold_vars, frame_vars, identifier_vars>>

\* expression = simplification::run(&expression)
Simplify ==
    /\ op' = "simplify"
    /\ input' = expression
    /\ expression' = run(expression)
    /\ result' = NoResult
    /\ UNCHANGED <<environment, patch_values, powc_build, render_vars, graph_vars, fold_vars, frame_vars, identifier_vars>>

Next == Evaluate \/ EvaluateToComplex \/ Simplify

Spec == Init /\ [][Next]_vars

(***************************************************************************)
(* Rendering and parsing.  A rendered text is kept as the sequence of     *)
(* lexemes the lexer reads from it: a run of digits, an identifier, an     *)
(* operator sign or a parenthesis.  Each piece written by Display is one   *)
(* lexeme, and "2i" is a run of digits followed by the identifier i.       *)
(***************************************************************************)
Integer(n) == [t |-> "Integer", s |-> "", v |-> real(n)]

FloatLiteral(v) == [t |-> "Float", s |-> "", v |-> v]

Identifier(s) == [t |-> "Identifier", s |-> s, v |-> ZERO]

Operator(s) == [t |-> "Operator", s |-> s, v |-> ZERO]

LParenthesis == [t |-> "LParenthesis", s |-> "(", v |-> ZERO]

RParenthesis == [t |-> "RParenthesis", s |-> ")", v |-> ZERO]

\* format!("{:.}", x) for one component: the sign, then the digits.
format_f64(x) ==
    IF x < 0 THEN <<Operator("-"), Integer(0 - x)>> ELSE <<Integer(x)>>

\* format_complex!.  Both tests on a NaN imaginary part are false, so a NaN
\* value is rendered by its real part alone, "NaN"; a value that is not a
\* small integer is rendered by its shortest decimal form, one literal.
format_complex(value) ==
    IF IsNaN(value) THEN <<Identifier("NaN")>>
    ELSE IF ~IsExact(value) THEN <<FloatLiteral(value)>>
    ELSE LET operator == IF value.im > 0 THEN <<Operator("+")>> ELSE <<>>
             imaginary_component ==
                 IF value.im > 0 THEN format_f64(value.im) \o <<Identifier("i")>>
                 ELSE IF value.im < 0
                      THEN <<Operator("-")>> \o format_f64(value.im) \o <<Identifier("i")>>
                 ELSE <<>>
         IN  IF imaginary_component = <<>> THEN format_f64(value.re)
             ELSE IF value.re = 0 THEN imaginary_component
             ELSE format_f64(value.re) \o operator \o imaginary_component

\* impl fmt::Display for ExpressionFunction, InfixOperator, PrefixOperator
function_name(function) ==
    CASE function = "Cis"        -> "cis"
      [] function = "Cosine"     -> "cos"
      [] function = "Exponent"   -> "exp"
      [] function = "Sine"       -> "sin"
      [] function = "SquareRoot" -> "sqrt"

infix_sign(operator) ==
    CASE operator = "Caret" -> "^"
      [] operator = "Plus"  -> "+"
      [] operator = "Minus" -> "-"
      [] operator = "Slash" -> "/"
      [] operator = "Star"  -> "*"

prefix_sign(operator) == IF operator = "Plus" THEN "+" ELSE "-"

\* impl fmt::Display for Expression
RECURSIVE to_string(_)
to_string(e) ==
    CASE e.k = "Address" ->
            <<Identifier(e.name), [t |-> "LBracket", s |-> "[", v |-> ZERO],
              Integer(e.index), [t |-> "RBracket", s |-> "]", v |-> ZERO]>>
      [] e.k = "FunctionCall" ->
            <<Identifier(function_name(e.function)), LParenthesis>>
                \o to_string(e.expression) \o <<RParenthesis>>
      [] e.k = "Infix" ->
            <<LParenthesis>> \o to_string(e.left) \o <<Operator(infix_sign(e.operator))>>
                \o to_string(e.right) \o <<RParenthesis>>
      [] e.k = "Number" -> format_complex(e.value)
      [] e.k = "PiConstant" -> <<Identifier("pi")>>
      [] e.k = "Prefix" ->
            <<LParenthesis, Operator(prefix_sign(e.prefix))>>
                \o to_string(e.expression) \o <<RParenthesis>>
      [] e.k = "Variable" -> <<[t |-> "Variable", s |-> e.identifier, v |-> ZERO]>>

\* The parser: precedence climbing over the lexemes.  A result is the
\* expression read and the lexemes that remain, or a failure.
Parsed(remainder, e) == [k |-> "Ok", remainder |-> remainder, value |-> e]

ParseError == Err("Failed to parse expression")

IsToken(tokens, t, s) == tokens # <<>> /\ Head(tokens).t = t /\ Head(tokens).s = s

IsOperator(tokens) == tokens # <<>> /\ Head(tokens).t = "Operator"

infix_of(sign) ==
    CHOOSE operator \in InfixOperator : infix_sign(operator) = sign

function_of(name) ==
    CHOOSE function \in ExpressionFunction : function_name(function) = name

\* Binding strength of an operator sign; the lowest is that of the whole
\* expression.
get_precedence(sign) ==
    CASE sign \in {"+", "-"} -> 1
      [] sign \in {"*", "/"} -> 2
      [] sign = "^" -> 3

RECURSIVE parse(_, _)
RECURSIVE parse_atom(_)
RECURSIVE parse_infix(_, _, _)

\* "(" expression ")"
parse_grouped_expression(tokens) ==
    LET inner == parse(tokens, 0)
    IN  IF inner.k = "Ok" /\ IsToken(inner.remainder, "RParenthesis", ")")
        THEN Parsed(Tail(inner.remainder), inner.value)
        ELSE ParseError

\* A literal with an optional i behind it, pi, a function call, or a group.
parse_atom(tokens) ==
    IF tokens = <<>> THEN ParseError
    ELSE LET token == Head(tokens)
             remainder == Tail(tokens)
         IN  CASE token.t \in {"Integer", "Float"} ->
                    IF IsToken(remainder, "Identifier", "i")
                    THEN Parsed(Tail(remainder), Number(Mul(Exact(0, 1), token.v)))
                    ELSE Parsed(remainder, Number(token.v))
               [] token.t = "Variable" -> Parsed(remainder, Variable(token.s))
               [] token.t = "Identifier" ->
                    IF token.s = "pi" THEN Parsed(remainder, PiConstant)
                    ELSE IF /\ token.s \in {function_name(f) : f \in ExpressionFunction}
                            /\ IsToken(remainder, "LParenthesis", "(")
                         THEN LET argument == parse_grouped_expression(Tail(remainder))
                              IN  IF argument.k = "Ok"
                                  THEN Parsed(argument.remainder,
                                              FunctionCall(function_of(token.s), argument.value))
                                  ELSE ParseError
                    ELSE ParseError
               [] token.t = "LParenthesis" -> parse_grouped_expression(remainder)
               [] OTHER -> ParseError

\* While an operator binding tighter than the context follows, it takes what
\* was read as its left side.
parse_infix(tokens, left, precedence) ==
    IF IsOperator(tokens) /\ get_precedence(Head(tokens).s) > precedence
    THEN LET right == parse(Tail(tokens), get_precedence(Head(tokens).s))
         IN  IF right.k = "Ok"
             THEN parse_infix(right.remainder,
                              Infix(left, infix_of(Head(tokens).s), right.value),
                              precedence)
             ELSE ParseError
    ELSE Parsed(tokens, left)

\* An optional sign, an atom, then the infix operators that follow it.
parse(tokens, precedence) ==
    LET signed == IsOperator(tokens) /\ Head(tokens).s \in {"+", "-"}
        atom == parse_atom(IF signed THEN Tail(tokens) ELSE tokens)
    IN  IF atom.k # "Ok" THEN ParseError
        ELSE parse_infix(atom.remainder,
                         IF signed
                         THEN Prefix(IF Head(tokens).s = "+" THEN "Plus" ELSE "Minus",
                                     atom.value)
                         ELSE atom.value,
                         precedence)

parse_expression(tokens) == parse(tokens, 0)

\* impl FromStr for Expression
from_str(s) ==
    LET read == parse_expression(s)
    IN  IF read.k # "Ok" THEN ParseError
        ELSE IF read.remainder = <<>> THEN Ok(read.value)
        ELSE Err("Parsed valid expression but found extra tokens")

\* #[derive(PartialEq)] on Expression: variant by variant, the numbers
\* compared as f64 compares them, where NaN equals nothing.
RECURSIVE eq(_, _)
eq(a, b) ==
    /\ a.k = b.k
    /\ CASE a.k = "Number" -> ~IsNaN(a.value) /\ ~IsNaN(b.value) /\ a.value = b.value
         [] a.k = "FunctionCall" -> a.function = b.function /\ eq(a.expression, b.expression)
         [] a.k = "Prefix" -> a.prefix = b.prefix /\ eq(a.expression, b.expression)
         [] a.k = "Infix" ->
                a.operator = b.operator /\ eq(a.left, b.left) /\ eq(a.right, b.right)
         [] OTHER -> a = b

\* The fully numeric expressions: no Variable and no Address.
NumericLiterals ==
    {Exact(re, im) : re \in (0 - MaxRe)..MaxRe, im \in (0 - MaxIm)..MaxIm} \cup {NaN}

NumericLeaves == {Number(v) : v \in NumericLiterals} \cup {PiConstant}

RECURSIVE NumericTrees(_)
NumericTrees(n) ==
    IF n = 1 THEN NumericLeaves
    ELSE {FunctionCall(f, e) : f \in ExpressionFunction, e \in NumericTrees(n - 1)}
           \cup {Prefix(o, e) : o \in PrefixOperator, e \in NumericTrees(n - 1)}
           \cup UNION {{Infix(l, o, r) : l \in NumericTrees(i), o \in InfixOperator,
                                         r \in NumericTrees(n - 1 - i)} : i \in 1..(n - 2)}

\* The trees of n nodes, by the variant of the root.
IsNumericExpression(e, n) ==
    \/ n = 1 /\ e \in NumericLeaves
    \/ n > 1 /\ \E f \in ExpressionFunction, a \in NumericTrees(n - 1) :
                    e = FunctionCall(f, a)
    \/ n > 1 /\ \E o \in PrefixOperator, a \in NumericTrees(n - 1) : e = Prefix(o, a)
    \/ n > 2 /\ \E i \in 1..(n - 2) :
                    \E l \in NumericTrees(i), o \in InfixOperator,
                       r \in NumericTrees(n - 1 - i) : e = Infix(l, o, r)

RenderInit ==
    /\ \E n \in 1..MaxNodes : IsNumericExpression(expression, n)
    /\ environment = <<>>
    /\ patch_values = None
    /\ powc_build = "polar"
    /\ op = "new"
    /\ input = expression
    /\ result = NoResult
    /\ NoText
    /\ NoProgram
    /\ NoFold
    /\ NoFrames
    /\ NoIdentifier

\* let text = expression.to_string()
Display ==
    /\ op = "new"
    /\ op' = "to_string"
    /\ text' = to_string(expression)
    /\ UNCHANGED <<expression_vars, parsed, graph_vars, fold_vars, frame_vars, identifier_vars>>

\* let parsed = Expression::from_str(&text)
FromStr ==
    /\ op = "to_string"
    /\ op' = "from_str"
    /\ parsed' = from_str(text)
    /\ UNCHANGED <<expression_vars, text, graph_vars, fold_vars, frame_vars, identifier_vars>>

RenderNext == Display \/ FromStr

RenderSpec == RenderInit /\ [][RenderNext]_vars

(***************************************************************************)
(* The execution graph engine (stats/execution_graph.rs).  An instruction  *)
(* is its variant and the qubits it touches; a node index is the position  *)
(* of the node in the graph's node list, counted from one.  An edge keeps, *)
(* beside its two ends, the qubit whose table entry produced it: the graph *)
(* of the program stores no edge weight, and no operation reads it.        *)
(***************************************************************************)
MaxInstructions == 4

Qubits == {0, 1}

Instruction(k, qubits) == [k |-> k, qubits |-> qubits]

Gate(qubits) == Instruction("Gate", qubits)

InstructionRole == {"ClassicalCompute", "ControlFlow", "ProgramComposition", "RFControl"}

\* InstructionHandler::role_for_instruction
role_for_instruction(instruction) ==
    CASE instruction.k \in {"Gate", "Measurement"} -> "ProgramComposition"
      [] instruction.k \in {"Nop", "Pragma"} -> "ClassicalCompute"
      [] instruction.k \in {"Halt", "Jump", "JumpWhen", "JumpUnless"} -> "ControlFlow"
      [] instruction.k \in {"Pulse"} -> "RFControl"

\* Instruction::get_qubits: the qubits the instruction touches, each once,
\* in the order the loop visits them.
get_qubits(instruction) == instruction.qubits

UnsupportedInstruction(instruction) ==
    [k |-> "UnsupportedInstruction", instruction |-> instruction]

\* DiGraph::new, add_node, add_edge
DiGraph == [nodes |-> <<>>, edges |-> <<>>]

add_node_SkipsQubitless(g, instruction) ==
    IF instruction.qubits = <<>> THEN g ELSE [g EXCEPT !.nodes = Append(@, instruction)]

add_node(g, instruction) == [g EXCEPT !.nodes = Append(@, instruction)]

add_edge_Reversed(g, a, b, qubit) ==
    [g EXCEPT !.edges = Append(@, [source |-> b, target |-> a, qubit |-> qubit])]

add_edge(g, a, b, qubit) ==
    [g EXCEPT !.edges = Append(@, [source |-> a, target |-> b, qubit |-> qubit])]

\* HashMap::new, HashMap::insert (the new map; the caller reads the old entry)
HashMap == <<>>

insert(map, key, value) ==
    [x \in DOMAIN map \cup {key} |-> IF x = key THEN value ELSE map[x]]

is_unsupported_AdmitsPragma(instruction) ==
    LET role == role_for_instruction(instruction)
    IN  CASE role = "ClassicalCompute" -> FALSE
          [] role = "ControlFlow" -> instruction.k \in {"Jump", "JumpWhen", "JumpUnless"}
          [] role = "ProgramComposition" -> FALSE
          [] role = "RFControl" -> TRUE

is_unsupported_EveryControlFlow(instruction) ==
    LET role == role_for_instruction(instruction)
    IN  CASE role = "ClassicalCompute" -> instruction.k = "Pragma"
          [] role = "ControlFlow" -> TRUE
          [] role = "ProgramComposition" -> FALSE
          [] role = "RFControl" -> TRUE

\* The match on the role of an instruction: TRUE when new returns
\* Err(UnsupportedInstruction(instruction)).
is_unsupported(instruction) ==
    LET role == role_for_instruction(instruction)
    IN  CASE role = "ClassicalCompute" -> instruction.k = "Pragma"
          [] role = "ControlFlow" -> instruction.k \in {"Jump", "JumpWhen", "JumpUnless"}
          [] role = "ProgramComposition" -> FALSE
          [] role = "RFControl" -> TRUE

link_KeepsFirstWriter(state, qubit, node) ==
    LET table == state.last_instruction_for_qubit
    IN  [graph |-> IF qubit \in DOMAIN table
                   THEN add_edge(state.graph, table[qubit], node, qubit)
                   ELSE state.graph,
         last_instruction_for_qubit |->
             IF qubit \in DOMAIN table THEN table ELSE insert(table, qubit, node)]

link_FromEveryNode(state, qubit, node) ==
    LET table == state.last_instruction_for_qubit
        Earlier(e) == \E j \in DOMAIN state.graph.nodes[e.source].qubits :
                          state.graph.nodes[e.source].qubits[j] = qubit
        edges == SelectSeq([u \in 1..(node - 1) |->
                               [source |-> u, target |-> node, qubit |-> qubit]], Earlier)
    IN  [graph |-> [state.graph EXCEPT !.edges = @ \o edges],
         last_instruction_for_qubit |-> insert(table, qubit, node)]

\* One pass of the loop over the qubits of the new node: the table takes the
\* node for the qubit, and the entry it replaces, if any, gives an edge.
link(state, qubit, node) ==
    LET table == state.last_instruction_for_qubit
    IN  [graph |-> IF qubit \in DOMAIN table
                   THEN add_edge(state.graph, table[qubit], node, qubit)
                   ELSE state.graph,
         last_instruction_for_qubit |-> insert(table, qubit, node)]

RECURSIVE link_qubits(_, _, _)
link_qubits(state, qubits, node) ==
    IF qubits = <<>> THEN state
    ELSE link_qubits(link(state, Head(qubits), node), Tail(qubits), node)

admit_LinksFirstQubit(g, table, instruction) ==
    LET qubits == get_qubits(instruction)
        added == add_node(g, instruction)
        node == Len(added.nodes)
    IN  link_qubits([graph |-> added, last_instruction_for_qubit |-> table],
                    IF qubits = <<>> THEN <<>> ELSE <<Head(qubits)>>, node)

\* The body of the loop for an admitted instruction.
admit(g, table, instruction) ==
    LET qubits == get_qubits(instruction)
        added == add_node(g, instruction)
        node == Len(added.nodes)
    IN  link_qubits([graph |-> added, last_instruction_for_qubit |-> table], qubits, node)

\* graph.externals(Direction::Incoming): the nodes without an incoming
\* edge, in index order.
RECURSIVE externals_from(_, _)
externals_from(g, n) ==
    IF n > Len(g.nodes) THEN <<>>
    ELSE (IF \E i \in DOMAIN g.edges : g.edges[i].target = n THEN <<>> ELSE <<n>>)
             \o externals_from(g, n + 1)

externals(g) == externals_from(g, 1)

\* graph.neighbors_directed(node, Direction::Outgoing): the target of
\* every outgoing edge of the node, the edge added last first.
RECURSIVE neighbors_from(_, _, _)
neighbors_from(g, node, i) ==
    IF i = 0 THEN <<>>
    ELSE (IF g.edges[i].source = node THEN <<g.edges[i].target>> ELSE <<>>)
             \o neighbors_from(g, node, i - 1)

neighbors_directed(g, node) == neighbors_from(g, node, Len(g.edges))

\* The callbacks of gate_depth and multi_qubit_gate_depth.
count_gate_SkipsMultiQubit(d, instruction) ==
    IF instruction.k = "Gate" /\ Len(instruction.qubits) = 1 THEN d + 1 ELSE d

count_gate_CountsEveryInstruction(d, instruction) == d + 1

count_gate(d, instruction) ==
    IF instruction.k = "Gate" THEN d + 1 ELSE d

count_multi_qubit_gate_CountsEveryGate(d, instruction) ==
    IF instruction.k = "Gate" /\ Len(instruction.qubits) >= 1 THEN d + 1 ELSE d

count_multi_qubit_gate(d, instruction) ==
    IF instruction.k = "Gate" /\ Len(instruction.qubits) > 1 THEN d + 1 ELSE d

call(f, acc, instruction) ==
    IF f = "gate_depth" THEN count_gate(acc, instruction)
    ELSE count_multi_qubit_gate(acc, instruction)

\* The entries pushed for the nodes of a popped entry, in order.
RECURSIVE visit(_, _, _, _)
visit(g, f, acc, nodes) ==
    IF nodes = <<>> THEN <<>>
    ELSE <<[acc |-> call(f, acc, g.nodes[Head(nodes)]),
            nodes |-> neighbors_directed(g, Head(nodes))]>>
             \o visit(g, f, acc, Tail(nodes))

\* The loop of path_fold: pop an entry; without nodes its accumulator is a
\* result, otherwise each of its nodes is visited and pushed.
RECURSIVE path_fold_loop(_, _, _, _)
path_fold_loop(g, f, stack, folded) ==
    IF stack = <<>> THEN folded
    ELSE LET top == stack[Len(stack)]
             rest == SubSeq(stack, 1, Len(stack) - 1)
         IN  IF top.nodes = <<>>
             THEN path_fold_loop(g, f, rest, Append(folded, top.acc))
             ELSE path_fold_loop(g, f, rest \o visit(g, f, top.acc, top.nodes), folded)

path_fold(g, initial_value, f) ==
    path_fold_loop(g, f, <<[acc |-> initial_value, nodes |-> externals(g)]>>, <<>>)

\* path_lengths.into_iter().max().unwrap_or_default()
max_or_default(path_lengths) ==
    IF path_lengths = <<>> THEN 0
    ELSE CHOOSE m \in {path_lengths[i] : i \in DOMAIN path_lengths} :
             \A i \in DOMAIN path_lengths : path_lengths[i] <= m

gate_depth_SeedsOne(g) == max_or_default(path_fold(g, 1, "gate_depth"))

gate_depth(g) == max_or_default(path_fold(g, 0, "gate_depth"))

multi_qubit_gate_depth(g) == max_or_default(path_fold(g, 0, "multi_qubit_gate_depth"))

\* The programs: every sequence of at most MaxInstructions instructions.
InstructionSet ==
    {Gate(<<0>>), Gate(<<1>>), Gate(<<0, 1>>), Instruction("Measurement", <<0>>),
     Instruction("Nop", <<>>), Instruction("Halt", <<>>), Instruction("Pragma", <<>>),
     Instruction("Jump", <<>>), Instruction("JumpWhen", <<>>),
     Instruction("JumpUnless", <<>>), Instruction("Pulse", <<0>>)}

Programs(n) == [1..n -> InstructionSet]

GraphInit ==
    /\ \E n \in 0..MaxInstructions : instructions \in Programs(n)
    /\ position = 1
    /\ graph = DiGraph
    /\ last_instruction_for_qubit = HashMap
    /\ built = NoResult
    /\ depth = NoResult
    /\ op = "new"
    /\ expression = PiConstant
    /\ environment = <<>>
    /\ patch_values = None
    /\ powc_build = "polar"
    /\ input = PiConstant
    /\ result = NoResult
    /\ NoText
    /\ NoFold
    /\ NoFrames
    /\ NoIdentifier

\* One iteration of the loop of ExecutionGraph::new.
NewIteration ==
    /\ built = NoResult
    /\ position <= Len(instructions)
    /\ LET instruction == instructions[position]
       IN  IF is_unsupported(instruction)
           THEN /\ built' = Err(UnsupportedInstruction(instruction))
                /\ UNCHANGED <<position, graph, last_instruction_for_qubit>>
           ELSE LET state == admit(graph, last_instruction_for_qubit, instruction)
                IN  /\ graph' = state.graph
                    /\ last_instruction_for_qubit' = state.last_instruction_for_qubit
                    /\ position' = position + 1
                    /\ UNCHANGED built
    /\ UNCHANGED <<instructions, depth, op, expression_vars, render_vars, fold_vars, frame_vars, identifier_vars>>

\* Ok(Self { graph })
NewReturn ==
    /\ built = NoResult
    /\ position > Len(instructions)
    /\ built' = Ok(graph)
    /\ UNCHANGED <<instructions, position, graph, last_instruction_for_qubit, depth, op,
                   expression_vars, render_vars, fold_vars, frame_vars, identifier_vars>>

\* graph.gate_depth()
GateDepth ==
    /\ built.k = "Ok"
    /\ op' = "gate_depth"
    /\ depth' = gate_depth(built.value)
    /\ UNCHANGED <<instructions, position, graph, last_instruction_for_qubit, built,
                   expression_vars, render_vars, fold_vars, frame_vars, identifier_vars>>

\* graph.multi_qubit_gate_depth()
MultiQubitGateDepth ==
    /\ built.k = "Ok"
    /\ op' = "multi_qubit_gate_depth"
    /\ depth' = multi_qubit_gate_depth(built.value)
    /\ UNCHANGED <<instructions, position, graph, last_instruction_for_qubit, built,
                   expression_vars, render_vars, fold_vars, frame_vars, identifier_vars>>

GraphNext == NewIteration \/ NewReturn \/ GateDepth \/ MultiQubitGateDepth

GraphSpec == GraphInit /\ [][GraphNext]_vars

(***************************************************************************)
(* path_fold, step by step, over a graph that new has built.  The          *)
(* combining function of the model appends the instruction to the          *)
(* accumulator, so that an accumulator tells the calls that produced it,   *)
(* and fails on one chosen instruction, or on none.  Each entry of the     *)
(* work stack also keeps the nodes its accumulator was folded over, and    *)
(* calls lists the calls of the combining function in order.               *)
(***************************************************************************)
\* ExecutionGraph::new, as one call.
RECURSIVE new_loop(_, _)
new_loop(remaining, state) ==
    IF remaining = <<>> THEN Ok(state.graph)
    ELSE IF is_unsupported(Head(remaining))
         THEN Err(UnsupportedInstruction(Head(remaining)))
    ELSE new_loop(Tail(remaining),
                  admit(state.graph, state.last_instruction_for_qubit, Head(remaining)))

new(program) == new_loop(program, [graph |-> DiGraph, last_instruction_for_qubit |-> HashMap])

\* f(acc.clone(), instruction)
f(acc, instruction) ==
    IF instruction = failing THEN Err("error") ELSE Ok(Append(acc, instruction))

initial_value == <<>>

Entry(acc, nodes, path) == [acc |-> acc, nodes |-> nodes, path |-> path]

\* while let Some(..) = stack.pop()
has_work_LeavesLast(work) == Len(work) > 1

has_work(work) == work # <<>>

\* The ? on the value of a call: an error is returned at once, a value
\* goes on as the accumulator of the successors.
propagate_SwallowsError(acc, value) ==
    IF value.k = "Err" THEN [k |-> "Continue", acc |-> acc]
    ELSE [k |-> "Continue", acc |-> value.value]

propagate(acc, value) ==
    IF value.k = "Err" THEN [k |-> "Return", acc |-> acc]
    ELSE [k |-> "Continue", acc |-> value.value]

FoldInstructionSet == {Gate(<<0>>), Gate(<<1>>), Gate(<<0, 1>>), Instruction("Nop", <<>>)}

FoldInit ==
    /\ \E n \in 0..MaxInstructions : instructions \in [1..n -> FoldInstructionSet]
    /\ position = Len(instructions) + 1
    /\ built = new(instructions)
    /\ graph = built.value
    /\ last_instruction_for_qubit = HashMap
    /\ depth = NoResult
    /\ op = "new"
    /\ failing \in FoldInstructionSet \cup {NoResult}
    /\ fold_stack = <<>>
    /\ current = NoResult
    /\ fold_values = <<>>
    /\ calls = <<>>
    /\ fold_result = NoResult
    /\ expression = PiConstant
    /\ environment = <<>>
    /\ patch_values = None
    /\ powc_build = "polar"
    /\ input = PiConstant
    /\ result = NoResult
    /\ NoText
    /\ NoFrames
    /\ NoIdentifier

\* let mut stack = vec![(initial_value, nodes)]; let mut result = Vec::new();
PathFoldStart ==
    /\ op = "new"
    /\ built.k = "Ok"
    /\ op' = "path_fold"
    /\ fold_stack' = <<Entry(initial_value, externals(built.value), <<>>)>>
    /\ fold_values' = <<>>
    /\ UNCHANGED <<current, calls, fold_result, failing, graph_vars, expression_vars,
                   render_vars, frame_vars, identifier_vars>>

\* stack.pop(): an entry without nodes gives its accumulator as a result,
\* another becomes the entry whose nodes the for loop visits.
PathFoldPop ==
    /\ op = "path_fold"
    /\ fold_result = NoResult
    /\ current = NoResult
    /\ has_work(fold_stack)
    /\ LET top == fold_stack[Len(fold_stack)]
       IN  /\ fold_stack' = SubSeq(fold_stack, 1, Len(fold_stack) - 1)
           /\ IF top.nodes = <<>>
              THEN fold_values' = Append(fold_values, top.acc) /\ UNCHANGED current
              ELSE current' = top /\ UNCHANGED fold_values
    /\ UNCHANGED <<op, calls, fold_result, failing, graph_vars, expression_vars,
                   render_vars, frame_vars, identifier_vars>>

\* One pass of the for loop: the call of f on the next node of the entry,
\* then the return of its error or the push of its value with the
\* successors of the node.
PathFoldCall ==
    /\ op = "path_fold"
    /\ fold_result = NoResult
    /\ current # NoResult
    /\ LET node == Head(current.nodes)
           value == f(current.acc, built.value.nodes[node])
           next == propagate(current.acc, value)
       IN  /\ calls' = Append(calls, [node |-> node, acc |-> current.acc,
                                      path |-> current.path, value |-> value])
           /\ IF next.k = "Return"
              THEN /\ fold_result' = value
                   /\ UNCHANGED <<fold_stack, current>>
              ELSE /\ fold_stack' =
                          Append(fold_stack,
                                 Entry(next.acc, neighbors_directed(built.value, node),
                                       Append(current.path, node)))
                   /\ current' = IF Tail(current.nodes) = <<>> THEN NoResult
                                 ELSE [current EXCEPT !.nodes = Tail(@)]
                   /\ UNCHANGED fold_result
    /\ UNCHANGED <<op, fold_values, failing, graph_vars, expression_vars,
                   render_vars, frame_vars, identifier_vars>>

\* Ok(result)
PathFoldReturn ==
    /\ op = "path_fold"
    /\ fold_result = NoResult
    /\ current = NoResult
    /\ fold_stack = <<>>
    /\ fold_result' = Ok(fold_values)
    /\ UNCHANGED <<op, fold_stack, current, fold_values, calls, failing, graph_vars,
                   expression_vars, render_vars, frame_vars, identifier_vars>>

FoldNext == PathFoldStart \/ PathFoldPop \/ PathFoldCall \/ PathFoldReturn

FoldSpec == FoldInit /\ [][FoldNext]_vars

\* The call runs to its end: a step that can be taken is taken.
FoldFairSpec == FoldSpec /\ WF_vars(FoldNext)

(***************************************************************************)
(* FrameSet::get_matching_keys.  A frame identifier is a name and a list   *)
(* of qubits, a frame set is the set of its keys (the attributes play no   *)
(* part in matching), and a condition is a tree of FrameMatchCondition.    *)
(***************************************************************************)
MaxConditions == 2

FrameIdentifier(name, qubits) == [name |-> name, qubits |-> qubits]

\* enum FrameMatchCondition
All == [k |-> "All"]

AnyOfNames(names) == [k |-> "AnyOfNames", names |-> names]

AnyOfQubits(qubits) == [k |-> "AnyOfQubits", qubits |-> qubits]

ExactQubits(qubits) == [k |-> "ExactQubits", qubits |-> qubits]

Specific(frame) == [k |-> "Specific", frame |-> frame]

And(conditions) == [k |-> "And", conditions |-> conditions]

Or(conditions) == [k |-> "Or", conditions |-> conditions]

\* f.qubits.iter().collect::<HashSet<_>>()
qubit_set(frame) == {frame.qubits[i] : i \in DOMAIN frame.qubits}

\* .reduce(|acc, el| acc.into_iter().filter(|&v| el.contains(v)).collect()):
\* None on an empty list, else the first set narrowed by each later one.
RECURSIVE reduce_from(_, _)
reduce_from(acc, sets) ==
    IF sets = <<>> THEN acc
    ELSE reduce_from({v \in acc : v \in Head(sets)}, Tail(sets))

reduce(sets) == IF sets = <<>> THEN None ELSE Some(reduce_from(Head(sets), Tail(sets)))

\* Option<HashSet<_>>::unwrap_or_default
unwrap_or_default(option) == IF option = None THEN {} ELSE option.table

RECURSIVE get_matching_keys(_, _)
get_matching_keys(keys, c) ==
    CASE c.k = "All" -> keys
      [] c.k = "AnyOfNames" -> {fr \in keys : fr.name \in c.names}
      [] c.k = "AnyOfQubits" ->
             {fr \in keys : \E i \in DOMAIN fr.qubits : fr.qubits[i] \in c.qubits}
      [] c.k = "ExactQubits" -> {fr \in keys : qubit_set(fr) = c.qubits}
      [] c.k = "Specific" -> IF c.frame \in keys THEN {c.frame} ELSE {}
      [] c.k = "And" ->
             unwrap_or_default(
                 reduce([i \in DOMAIN c.conditions |->
                            get_matching_keys(keys, c.conditions[i])]))
      [] c.k = "Or" ->
             UNION {get_matching_keys(keys, c.conditions[i]) : i \in DOMAIN c.conditions}

FrameNames == {"ro", "rf"}

FrameIdentifiers ==
    {FrameIdentifier("ro", <<0>>), FrameIdentifier("rf", <<0>>),
     FrameIdentifier("ro", <<0, 1>>), FrameIdentifier("rf", <<1>>)}

SimpleConditions ==
    {All}
        \cup {AnyOfNames(names) : names \in SUBSET FrameNames}
        \cup {AnyOfQubits(qubits) : qubits \in SUBSET Qubits}
        \cup {ExactQubits(qubits) : qubits \in SUBSET Qubits}
        \cup {Specific(frame) : frame \in FrameIdentifiers}

\* The conditions a list holds: the simple ones and some lists of them.
InnerConditions ==
    SimpleConditions
        \cup {And(<<>>), Or(<<>>),
              And(<<AnyOfNames({"ro"}), AnyOfQubits({0})>>),
              Or(<<ExactQubits({0}), Specific(FrameIdentifier("rf", <<1>>))>>)}

FrameInit ==
    /\ frames \in SUBSET FrameIdentifiers
    /\ \/ condition \in SimpleConditions
       \/ \E n \in 0..MaxConditions :
              \E conditions \in [1..n -> InnerConditions] :
                  condition \in {And(conditions), Or(conditions)}
    /\ matched = NoResult
    /\ op = "new"
    /\ expression = PiConstant
    /\ environment = <<>>
    /\ patch_values = None
    /\ powc_build = "polar"
    /\ input = PiConstant
    /\ result = NoResult
    /\ NoText
    /\ NoProgram
    /\ NoFold
    /\ NoIdentifier

GetMatchingKeys ==
    /\ op = "new"
    /\ op' = "get_matching_keys"
    /\ matched' = get_matching_keys(frames, condition)
    /\ UNCHANGED <<frames, condition, expression_vars, render_vars, graph_vars,
                   fold_vars, identifier_vars>>

FrameNext == GetMatchingKeys

FrameSpec == FrameInit /\ [][FrameNext]_vars

(***************************************************************************)
(* Identifier validation.  A string is a sequence of characters, each a    *)
(* string of length one; the regular expression is matched as its two      *)
(* alternatives between the anchors.                                       *)
(***************************************************************************)
MaxLength == 3

Letters == {"H", "G", "p", "i"}

Digits == {"1"}

Characters == Letters \cup Digits \cup {"-", "_", "%"}

\* enum IdentifierValidationError
Reserved(token) == [k |-> "Reserved", token |-> token]

Invalid(string) == [k |-> "Invalid", string |-> string]

\* [A-Za-z_]
start_class(c) == c \in Letters \cup {"_"}

\* [A-Za-z0-9\-_]
middle_class(c) == c \in Letters \cup Digits \cup {"-", "_"}

\* [A-Za-z0-9_]
end_class_WithDash(c) == c \in Letters \cup Digits \cup {"-", "_"}

end_class(c) == c \in Letters \cup Digits \cup {"_"}

\* ^([A-Za-z_]|[A-Za-z_][A-Za-z0-9\-_]*[A-Za-z0-9_])$
is_match_WithoutFirstAlternative(string) ==
    /\ Len(string) >= 2
    /\ start_class(string[1])
    /\ \A i \in 2..(Len(string) - 1) : middle_class(string[i])
    /\ end_class(string[Len(string)])

is_match(string) ==
    \/ Len(string) = 1 /\ start_class(string[1])
    \/ /\ Len(string) >= 2
       /\ start_class(string[1])
       /\ \A i \in 2..(Len(string) - 1) : middle_class(string[i])
       /\ end_class(string[Len(string)])

\* ReservedToken::from_str: the token of a reserved word, an error for any
\* other string.
ReservedTokens == {<<"H">>, <<"p", "i">>}

reserved_from_str(string) ==
    IF string \in ReservedTokens THEN Ok(string) ELSE Err("not reserved")

validate_identifier(string) ==
    IF is_match(string) THEN Ok(TRUE) ELSE Err(Invalid(string))

validate_user_identifier_IgnoresReserved(string) == validate_identifier(string)

validate_user_identifier(string) ==
    LET token == reserved_from_str(string)
    IN  IF token.k = "Ok" THEN Err(Reserved(token.value))
        ELSE validate_identifier(string)

IdentifierInit ==
    /\ \E n \in 0..MaxLength : ident \in [1..n -> Characters]
    /\ validity = NoResult
    /\ op = "new"
    /\ expression = PiConstant
    /\ environment = <<>>
    /\ patch_values = None
    /\ powc_build = "polar"
    /\ input = PiConstant
    /\ result = NoResult
    /\ NoText
    /\ NoProgram
    /\ NoFold
    /\ NoFrames

ValidateIdentifier ==
    /\ op = "new"
    /\ op' = "validate_identifier"
    /\ validity' = validate_identifier(ident)
    /\ UNCHANGED <<ident, expression_vars, render_vars, graph_vars, fold_vars, frame_vars>>

ValidateUserIdentifier ==
    /\ op = "new"
    /\ op' = "validate_user_identifier"
    /\ validity' = validate_user_identifier(ident)
    /\ UNCHANGED <<ident, expression_vars, render_vars, graph_vars, fold_vars, frame_vars>>

IdentifierNext == ValidateIdentifier \/ ValidateUserIdentifier

IdentifierSpec == IdentifierInit /\ [][IdentifierNext]_vars

(***************************************************************************)
(* QuilProgramStats::gate_depth of the program-stats crate: one pass over  *)
(* the body instructions of a program.                                     *)
(***************************************************************************)
\* The body of the for loop: the counts after one more instruction.
count_successive_NeverResets(counts, instruction) ==
    IF instruction.k = "Gate"
    THEN [max_depth |-> IF counts.current_depth + 1 > counts.max_depth
                        THEN counts.current_depth + 1 ELSE counts.max_depth,
          current_depth |-> counts.current_depth + 1]
    ELSE counts

count_successive(counts, instruction) ==
    IF instruction.k = "Gate"
    THEN [max_depth |-> IF counts.current_depth + 1 > counts.max_depth
                        THEN counts.current_depth + 1 ELSE counts.max_depth,
          current_depth |-> counts.current_depth + 1]
    ELSE [counts EXCEPT !.current_depth = 0]

RECURSIVE successive_loop(_, _)
successive_loop(counts, body) ==
    IF body = <<>> THEN counts.max_depth
    ELSE successive_loop(count_successive(counts, Head(body)), Tail(body))

\* <Program as QuilProgramStats>::gate_depth
successive_gate_depth(body) ==
    successive_loop([max_depth |-> 0, current_depth |-> 0], body)

BodyInstructionSet ==
    {Gate(<<0>>), Gate(<<0, 1>>), Instruction("Measurement", <<0>>),
     Instruction("Nop", <<>>), Instruction("Halt", <<>>)}

StatsInit ==
    /\ \E n \in 0..MaxInstructions : instructions \in [1..n -> BodyInstructionSet]
    /\ position = 0
    /\ graph = NoResult
    /\ last_instruction_for_qubit = <<>>
    /\ built = NoResult
    /\ depth = NoResult
    /\ op = "new"
    /\ expression = PiConstant
    /\ environment = <<>>
    /\ patch_values = None
    /\ powc_build = "polar"
    /\ input = PiConstant
    /\ result = NoResult
    /\ NoText
    /\ NoFold
    /\ NoFrames
    /\ NoIdentifier

SuccessiveGateDepth ==
    /\ op = "new"
    /\ op' = "successive_gate_depth"
    /\ depth' = successive_gate_depth(instructions)
    /\ UNCHANGED <<instructions, position, graph, last_instruction_for_qubit, built,
                   expression_vars, render_vars, fold_vars, frame_vars, identifier_vars>>

StatsNext == SuccessiveGateDepth

StatsSpec == StatsInit /\ [][StatsNext]_vars

(***************************************************************************)
(* Properties                                                              *)
(***************************************************************************)
Patched(reference, patch) ==
    /\ patch.k = "Some"
    /\ reference.name \in DOMAIN patch.table
    /\ reference.index < Len(patch.table[reference.name])

RECURSIVE HasUnbound(_, _, _)
HasUnbound(e, env, patch) ==
    CASE e.k = "Variable" -> e.identifier \notin DOMAIN env
      [] e.k = "Address" -> ~Patched(e, patch)
      [] e.k \in {"FunctionCall", "Prefix"} -> HasUnbound(e.expression, env, patch)
      [] e.k = "Infix" -> HasUnbound(e.left, env, patch) \/ HasUnbound(e.right, env, patch)
      [] OTHER -> FALSE

Reduced(e) == e.k \in {"Number", "PiConstant"}

NumericValue(e) == IF e.k = "PiConstant" THEN PI ELSE e.value

IsComplex(v) ==
    /\ DOMAIN v = {"t", "re", "im", "fn", "args"}
    /\ v.t \in {"exact", "nan", "float"}

RECURSIVE IsExpression(_)
IsExpression(e) ==
    /\ "k" \in DOMAIN e
    /\ CASE e.k = "Number" -> DOMAIN e = {"k", "value"} /\ IsComplex(e.value)
         [] e.k = "PiConstant" -> DOMAIN e = {"k"}
         [] e.k = "Variable" -> DOMAIN e = {"k", "identifier"}
         [] e.k = "Address" -> DOMAIN e = {"k", "name", "index"}
         [] e.k = "FunctionCall" ->
                /\ DOMAIN e = {"k", "function", "expression"}
                /\ e.function \in ExpressionFunction
                /\ IsExpression(e.expression)
         [] e.k = "Prefix" ->
                /\ DOMAIN e = {"k", "prefix", "expression"}
                /\ e.prefix \in PrefixOperator
                /\ IsExpression(e.expression)
         [] e.k = "Infix" ->
                /\ DOMAIN e = {"k", "left", "operator", "right"}
                /\ e.operator \in InfixOperator
                /\ IsExpression(e.left)
                /\ IsExpression(e.right)
         [] OTHER -> FALSE

\* C1: evaluate_to_complex returns Err(Incomplete) only when the expression
\* contains a variable absent from the environment or an address without a
\* patch value: an expression with every variable bound and every address
\* patched evaluates to Ok.
C1_IncompleteOnlyWhenUnbound ==
    (op = "evaluate_to_complex" /\ ~HasUnbound(input, environment, patch_values))
        => result.k = "Ok"

\* C2: evaluate on an Infix evaluates both sides; when each side reduces to
\* a Number or a PiConstant (any of the four combinations) the result is the
\* Number of the operator applied to the two values, pi substituted;
\* otherwise it is the Infix around the evaluated sides.
C2_InfixReducesAllCombinations ==
    (op = "evaluate" /\ input.k = "Infix") =>
        LET l == evaluate(input.left, environment, patch_values)
            r == evaluate(input.right, environment, patch_values)
        IN  IF Reduced(l) /\ Reduced(r)
            THEN expression =
                    Number(calculate_infix(NumericValue(l), input.operator, NumericValue(r)))
            ELSE expression = Infix(l, input.operator, r)

C4_VariableArm ==
    (op = "evaluate" /\ input.k = "Variable") =>
        IF input.identifier \in DOMAIN environment
        THEN expression = Number(environment[input.identifier])
        ELSE expression = input

C4_Witness ==
    /\ op = "evaluate"
    /\ input.k = "Variable"
    /\ input.identifier \notin DOMAIN environment
    /\ DOMAIN environment # {}
    /\ expression = input

\* C5: evaluate on Address(ref) is Number(patch[ref.name][ref.index]) exactly
\* when a patch table is supplied, contains ref.name and has an entry at
\* ref.index; otherwise it is Address(ref) unchanged.
C5_AddressArm ==
    (op = "evaluate" /\ input.k = "Address") =>
        IF Patched(input, patch_values)
        THEN expression = Number(real(patch_values.table[input.name][input.index + 1]))
        ELSE expression = input

C5_Witness ==
    /\ op = "evaluate"
    /\ input.k = "Address"
    /\ patch_values.k = "Some"
    /\ input.name \in DOMAIN patch_values.table
    /\ input.index = Len(patch_values.table[input.name])
    /\ expression = input

\* C6: evaluate on a FunctionCall evaluates the argument first; a Number or
\* PiConstant argument gives the Number of the function applied to it, and
\* any other argument gives the FunctionCall around the evaluated argument.
C6_FunctionCallArm ==
    (op = "evaluate" /\ input.k = "FunctionCall") =>
        LET a == evaluate(input.expression, environment, patch_values)
        IN  IF Reduced(a)
            THEN expression = Number(calculate_function(input.function, NumericValue(a)))
            ELSE expression = FunctionCall(input.function, a)

C6_Witness ==
    /\ op = "evaluate"
    /\ input.k = "FunctionCall"
    /\ input.expression.k = "PiConstant"
    /\ expression.k = "Number"

\* C7: evaluate is total: for every expression, environment and patch table
\* it returns an Expression, never an error, and returns Number and
\* PiConstant inputs unchanged.
C7_EvaluateTotal ==
    op = "evaluate" =>
        /\ IsExpression(expression)
        /\ Reduced(input) => expression = input

C7_Witness ==
    /\ op = "evaluate"
    /\ DOMAIN environment = {}
    /\ patch_values = None
    /\ input.k = "Infix"
    /\ input.left.k = "Variable"
    /\ input.right.k = "Address"
    /\ expression = input

C9_SimplifyPreservesValue ==
    (op = "simplify"
        /\ evaluate_to_complex(input, environment, patch_values).k = "Ok") =>
        evaluate_to_complex(expression, environment, patch_values)
            = evaluate_to_complex(input, environment, patch_values)

\* C10: for a symbolic term x, simplify gives x for x+0, 0+x, x-0, x*1, 1*x
\* and x/1, gives 0 for x*0, 0*x, 0/x and 0^x, gives 1 for x^0, and returns a
\* lone variable or memory reference unchanged.
C10_IdentityElimination ==
    op = "simplify" =>
        /\ IsSymbol(input) => expression = input
        /\ (input.k = "Infix" /\ IsSymbol(input.left) /\ input.right = Number(ZERO)) =>
              expression = CASE input.operator \in {"Plus", "Minus"} -> input.left
                             [] input.operator = "Star" -> Number(ZERO)
                             [] input.operator = "Caret" -> Number(ONE)
                             [] OTHER -> expression
        /\ (input.k = "Infix" /\ IsSymbol(input.left) /\ input.right = Number(ONE)) =>
              expression = CASE input.operator \in {"Star", "Slash"} -> input.left
                             [] OTHER -> expression
        /\ (input.k = "Infix" /\ input.left = Number(ZERO) /\ IsSymbol(input.right)) =>
              expression = CASE input.operator = "Plus" -> input.right
                             [] input.operator \in {"Star", "Slash", "Caret"} -> Number(ZERO)
                             [] OTHER -> expression
        /\ (input.k = "Infix" /\ input.left = Number(ONE) /\ IsSymbol(input.right)) =>
              expression = CASE input.operator = "Star" -> input.right
                             [] OTHER -> expression

C10_Witness ==
    /\ op = "simplify"
    /\ input = Infix(Address("theta", 0), "Caret", Number(ZERO))
    /\ expression = Number(ONE)

\* C11: rendering and parsing are inverse on fully numeric expressions: for
\* every expression built only from Number, PiConstant, FunctionCall, Infix
\* and Prefix nodes, parsing the text produced by Display yields an
\* expression equal to the original tree.
C11_RoundTrip ==
    op = "from_str" => (parsed.k = "Ok" /\ eq(parsed.value, expression))

\* The instruction at a position of the input, and what the claims say of it.
Touches(instruction, q) ==
    \E j \in DOMAIN get_qubits(instruction) : get_qubits(instruction)[j] = q

IsJump(instruction) == instruction.k \in {"Jump", "JumpWhen", "JumpUnless"}

Rejected(instruction) ==
    \/ instruction.k = "Pragma"
    \/ IsJump(instruction)
    \/ role_for_instruction(instruction) = "RFControl"

HasRejected == \E i \in DOMAIN instructions : Rejected(instructions[i])

FirstRejected ==
    CHOOSE i \in DOMAIN instructions :
        Rejected(instructions[i]) /\ \A j \in 1..(i - 1) : ~Rejected(instructions[j])

Returned == built # NoResult

EdgeSet(g) == {g.edges[i] : i \in DOMAIN g.edges}

\* C12: ExecutionGraph::new fails with UnsupportedInstruction for every
\* sequence that contains a Pragma, a Jump, a JumpWhen, a JumpUnless or an
\* RFControl instruction, wherever it occurs: the error carries the first
\* such instruction in program order, no graph is returned, and the loop
\* never goes past that instruction.
C12_RejectsUnsupported ==
    HasRejected =>
        /\ built.k # "Ok"
        /\ Returned => built = Err(UnsupportedInstruction(instructions[FirstRejected]))
        /\ position <= FirstRejected
        /\ Len(graph.nodes) < FirstRejected

C12_Witness ==
    /\ HasRejected
    /\ built.k = "Err"
    /\ FirstRejected > 2
    /\ \E j \in DOMAIN instructions :
           /\ j > FirstRejected
           /\ Rejected(instructions[j])
           /\ instructions[j] # instructions[FirstRejected]

\* C13 as stated: new fails whenever the sequence contains an instruction
\* whose role is ControlFlow, and no ControlFlow instruction is ever a node
\* of a built graph.
C13_RejectsEveryControlFlow ==
    /\ (\E i \in DOMAIN instructions :
            role_for_instruction(instructions[i]) = "ControlFlow") => built.k # "Ok"
    /\ built.k = "Ok" =>
           \A n \in DOMAIN built.value.nodes :
               role_for_instruction(built.value.nodes[n]) # "ControlFlow"

\* C13 amended: of the ControlFlow instructions only Jump, JumpWhen and
\* JumpUnless make new fail; a sequence with none of the rejected
\* instructions is built, and each of its other ControlFlow instructions is
\* the node at its position.
C13_RejectsJumpsOnly ==
    /\ (\E i \in DOMAIN instructions : IsJump(instructions[i])) => built.k # "Ok"
    /\ \A n \in DOMAIN graph.nodes : ~IsJump(graph.nodes[n])
    /\ (Returned /\ ~HasRejected) =>
           /\ built.k = "Ok"
           /\ \A i \in DOMAIN instructions :
                  role_for_instruction(instructions[i]) = "ControlFlow" =>
                      built.value.nodes[i] = instructions[i]

C13_Witness ==
    /\ built.k = "Ok"
    /\ \E n \in DOMAIN built.value.nodes :
           /\ role_for_instruction(built.value.nodes[n]) = "ControlFlow"
           /\ n > 1
           /\ n < Len(built.value.nodes)

\* C14: for every sequence with no Pragma, no Jump, JumpWhen or JumpUnless
\* and no RFControl instruction new succeeds, and the graph has one node
\* per instruction, holding it, in program order; an instruction without
\* qubits is a node without edges.  While the loop runs the nodes are the
\* instructions read so far.
C14_OneNodePerInstruction ==
    /\ Len(graph.nodes) <= Len(instructions)
    /\ graph.nodes = SubSeq(instructions, 1, Len(graph.nodes))
    /\ (Returned /\ ~HasRejected) =>
           /\ built.k = "Ok"
           /\ built.value.nodes = instructions
           /\ \A n \in DOMAIN instructions :
                  get_qubits(instructions[n]) = <<>> =>
                      \A e \in EdgeSet(built.value) : e.source # n /\ e.target # n

C14_Witness ==
    /\ built.k = "Ok"
    /\ Len(built.value.nodes) = MaxInstructions
    /\ get_qubits(built.value.nodes[2]) = <<>>
    /\ built.value.edges # <<>>

\* C15: there is an edge from node u to node v for qubit q exactly when
\* both instructions touch q, u precedes v, and no instruction strictly
\* between them touches q; there is one such edge at most; and the table
\* maps every qubit touched so far to the last node that touches it, so the
\* qubits of the instruction just processed map to its node.
C15_LastWriterLinking ==
    /\ \A u \in DOMAIN graph.nodes, v \in DOMAIN graph.nodes, q \in Qubits :
           ([source |-> u, target |-> v, qubit |-> q] \in EdgeSet(graph)) <=>
               /\ u < v
               /\ Touches(graph.nodes[u], q)
               /\ Touches(graph.nodes[v], q)
               /\ \A w \in (u + 1)..(v - 1) : ~Touches(graph.nodes[w], q)
    /\ \A e \in EdgeSet(graph) :
           e.source \in DOMAIN graph.nodes /\ e.target \in DOMAIN graph.nodes
               /\ e.qubit \in Qubits
    /\ Cardinality(EdgeSet(graph)) = Len(graph.edges)
    /\ \A q \in Qubits :
           LET touching == {n \in DOMAIN graph.nodes : Touches(graph.nodes[n], q)}
           IN  IF touching = {} THEN q \notin DOMAIN last_instruction_for_qubit
               ELSE /\ q \in DOMAIN last_instruction_for_qubit
                    /\ last_instruction_for_qubit[q] \in touching
                    /\ \A n \in touching : n <= last_instruction_for_qubit[q]

C15_Witness ==
    /\ built.k = "Ok"
    /\ \E q \in Qubits, u \in DOMAIN graph.nodes, w \in DOMAIN graph.nodes,
          v \in DOMAIN graph.nodes :
           /\ u < w /\ w < v
           /\ Touches(graph.nodes[u], q) /\ Touches(graph.nodes[w], q)
           /\ Touches(graph.nodes[v], q)
           /\ [source |-> u, target |-> v, qubit |-> q] \notin EdgeSet(graph)
           /\ [source |-> w, target |-> v, qubit |-> q] \in EdgeSet(graph)
           /\ Len(get_qubits(graph.nodes[v])) > 1
           /\ last_instruction_for_qubit[q] = v

InEdges(g, v) == {i \in DOMAIN g.edges : g.edges[i].target = v}

\* C16: after any prefix of the sequence, every node has at most one
\* incoming edge for each qubit it touches and none for another qubit, so
\* its in-degree is at most the number of its qubits; the first instruction
\* that touches a qubit has no incoming edge for it.
C16_Sparsity ==
    \A v \in DOMAIN graph.nodes :
        /\ Cardinality(InEdges(graph, v)) <= Len(get_qubits(graph.nodes[v]))
        /\ \A q \in Qubits :
               LET incoming == {i \in InEdges(graph, v) : graph.edges[i].qubit = q}
                   first == \A u \in 1..(v - 1) : ~Touches(graph.nodes[u], q)
               IN  IF Touches(graph.nodes[v], q) /\ ~first
                   THEN Cardinality(incoming) <= 1
                   ELSE incoming = {}

C16_Witness ==
    /\ built = NoResult
    /\ \E v \in DOMAIN graph.nodes :
           /\ Cardinality(InEdges(graph, v)) = 2
           /\ \E q \in Qubits, u \in 1..(v - 1), w \in 1..(v - 1) :
                  u < w /\ Touches(graph.nodes[u], q) /\ Touches(graph.nodes[w], q)
    /\ \E v \in DOMAIN graph.nodes :
           Touches(graph.nodes[v], 1) /\ InEdges(graph, v) = {} /\ v > 1

\* The nodes reached from u along the edges of one qubit, or of every
\* qubit, in at most k steps.
RECURSIVE Reach(_, _, _, _)
Reach(g, qs, u, k) ==
    IF k = 0 THEN {u}
    ELSE LET near == Reach(g, qs, u, k - 1)
         IN  near \cup {e.target : e \in {x \in EdgeSet(g) : x.source \in near /\ x.qubit \in qs}}

\* An edge beside which a path of two or more of the edges of qs joins the
\* same two nodes.
Transitive(g, qs, e) ==
    \E x \in EdgeSet(g) :
        /\ x.source = e.source
        /\ x.qubit \in qs
        /\ x.target # e.target
        /\ e.target \in Reach(g, qs, x.target, Len(g.nodes))

OrderKept(g, qs) ==
    \A q \in qs, u \in DOMAIN g.nodes, v \in DOMAIN g.nodes :
        (u < v /\ Touches(g.nodes[u], q) /\ Touches(g.nodes[v], q)) =>
            v \in Reach(g, qs, u, Len(g.nodes))

\* C17 as stated: the built graph has no transitive edge, no edge from u to
\* v beside which another path from u to v of two or more edges exists,
\* while for every qubit each earlier instruction that touches it reaches
\* every later one.
C17_NoTransitiveEdge ==
    built.k = "Ok" =>
        /\ \A e \in EdgeSet(built.value) : ~Transitive(built.value, Qubits, e)
        /\ OrderKept(built.value, Qubits)

\* C17 amended: the edges are minimal qubit by qubit: among the edges of
\* one qubit none has a path of two or more edges of that qubit beside it,
\* and along the edges of a qubit each earlier instruction that touches it
\* reaches every later one.  An edge of one qubit may lie beside a path of
\* edges of another.
C17_MinimalPerQubit ==
    built.k = "Ok" =>
        \A q \in Qubits :
            /\ \A e \in EdgeSet(built.value) :
                   e.qubit = q => ~Transitive(built.value, {q}, e)
            /\ OrderKept(built.value, {q})

C17_Witness ==
    /\ built.k = "Ok"
    /\ \E e \in EdgeSet(built.value) : Transitive(built.value, Qubits, e)

\* C18: the graph is acyclic: every edge goes from the node of an earlier
\* instruction to the node of a strictly later one, and no node has an edge
\* to itself.
C18_Acyclic ==
    \A e \in EdgeSet(graph) :
        /\ e.source \in DOMAIN graph.nodes
        /\ e.target \in DOMAIN graph.nodes
        /\ e.source < e.target

C18_Witness ==
    /\ built.k = "Ok"
    /\ Len(built.value.edges) > MaxInstructions
    /\ \E e \in EdgeSet(built.value) : e.target > e.source + 1

\* The paths of a graph from a node without incoming edge to a node without
\* outgoing edge, each the increasing sequence of its nodes.
RECURSIVE Ascending(_)
Ascending(S) ==
    IF S = {} THEN <<>>
    ELSE LET m == CHOOSE x \in S : \A y \in S : x <= y
         IN  <<m>> \o Ascending(S \ {m})

IsPath(g, p) ==
    /\ p # <<>>
    /\ \A e \in EdgeSet(g) : e.target # p[1] /\ e.source # p[Len(p)]
    /\ \A i \in 1..(Len(p) - 1) :
           \E e \in EdgeSet(g) : e.source = p[i] /\ e.target = p[i + 1]

Paths(g) == {p \in {Ascending(S) : S \in SUBSET (DOMAIN g.nodes)} : IsPath(g, p)}

Maximum(S) == CHOOSE m \in S : \A x \in S : x <= m

GatesOn(g, p) == Cardinality({i \in DOMAIN p : g.nodes[p[i]].k = "Gate"})

MultiQubitGatesOn(g, p) ==
    Cardinality({i \in DOMAIN p : g.nodes[p[i]].k = "Gate"
                                   /\ Len(g.nodes[p[i]].qubits) > 1})

\* C19: gate_depth() is the maximum, over the paths from a node without
\* incoming edge to a node without outgoing edge, of the number of Gate
\* instructions on the path; the other instructions of a path add nothing.
C19_GateDepth ==
    (op = "gate_depth" /\ built.value.nodes # <<>>) =>
        depth = Maximum({GatesOn(built.value, p) : p \in Paths(built.value)})

C19_Witness ==
    /\ op = "gate_depth"
    /\ depth = 2
    /\ Cardinality({n \in DOMAIN built.value.nodes : built.value.nodes[n].k = "Gate"}) = 3
    /\ \E e \in EdgeSet(built.value) : built.value.nodes[e.target].k = "Measurement"

\* C20: multi_qubit_gate_depth() is the maximum, over the same paths, of
\* the number of Gate instructions on the path whose qubit list has more
\* than one element; gates on one qubit and the other instructions add
\* nothing.
C20_MultiQubitGateDepth ==
    (op = "multi_qubit_gate_depth" /\ built.value.nodes # <<>>) =>
        depth = Maximum({MultiQubitGatesOn(built.value, p) : p \in Paths(built.value)})

C20_Witness ==
    /\ op = "multi_qubit_gate_depth"
    /\ depth = 2
    /\ gate_depth(built.value) = 3
    /\ Len(built.value.nodes) = MaxInstructions

\* C21: on the graph built from the empty instruction sequence gate_depth()
\* and multi_qubit_gate_depth() both return 0, and neither fails.
C21_EmptyGraphDepth ==
    instructions = <<>> =>
        /\ Returned => built = Ok(DiGraph)
        /\ op \in {"gate_depth", "multi_qubit_gate_depth"} => depth = 0

C21_Witness ==
    /\ instructions = <<>>
    /\ built = Ok(DiGraph)
    /\ op = "multi_qubit_gate_depth"
    /\ depth = 0

GateCount(program) == Cardinality({i \in DOMAIN program : program[i].k = "Gate"})

\* C26: for every built graph multi_qubit_gate_depth() <= gate_depth() <=
\* the number of Gate instructions of the input, and gate_depth() >= 1 when
\* the input has a Gate.
C26_DepthBounds ==
    /\ op = "gate_depth" =>
           /\ multi_qubit_gate_depth(built.value) <= depth
           /\ depth <= GateCount(instructions)
           /\ GateCount(instructions) >= 1 => depth >= 1
    /\ op = "multi_qubit_gate_depth" => depth <= gate_depth(built.value)

C26_Witness ==
    /\ op = "gate_depth"
    /\ multi_qubit_gate_depth(built.value) = 1
    /\ depth = 2
    /\ GateCount(instructions) = 3

IsRoot(g, n) == \A e \in EdgeSet(g) : e.target # n

\* The node sequences that start at a node without incoming edge and follow
\* edges, wherever they end.
RootPaths(g) ==
    {p \in {Ascending(S) : S \in SUBSET (DOMAIN g.nodes)} :
        /\ p # <<>>
        /\ IsRoot(g, p[1])
        /\ \A i \in 1..(Len(p) - 1) :
               \E e \in EdgeSet(g) : e.source = p[i] /\ e.target = p[i + 1]}

Along(g, p) == [i \in DOMAIN p |-> g.nodes[p[i]]]

Front(s) == SubSeq(s, 1, Len(s) - 1)

\* C22: path_fold calls the combining function on a node once for each
\* distinct path from a root to that node, a path being the nodes it goes
\* through: each call receives the accumulator produced along its path, a
\* call on a root receives the seed, a call on a successor receives the
\* value the call on its predecessor returned, no two calls are on the same
\* node by the same path, and a fold that returns has called every node by
\* every path from a root to it.
C22_OncePerPath ==
    /\ \A i \in DOMAIN calls :
           LET c == calls[i]
           IN  /\ c.acc = Along(built.value, c.path)
               /\ c.path = <<>> => c.acc = initial_value /\ IsRoot(built.value, c.node)
               /\ c.path # <<>> =>
                      \E j \in 1..(i - 1) :
                          /\ calls[j].node = c.path[Len(c.path)]
                          /\ calls[j].path = Front(c.path)
                          /\ calls[j].value = Ok(c.acc)
               /\ \A j \in DOMAIN calls :
                      j # i => calls[j].node # c.node \/ calls[j].path # c.path
    /\ fold_result.k = "Ok" =>
           \A p \in RootPaths(built.value) :
               \E i \in DOMAIN calls : Append(calls[i].path, calls[i].node) = p

\* C23: when a call of the combining function fails, path_fold stops at
\* that call: the failed call is the last call, the fold returns its error
\* and nothing else, whatever accumulators of completed paths it had
\* collected; a fold that returns results has seen no call fail.
C23_StopsAtFailure ==
    /\ \A i \in DOMAIN calls :
           calls[i].value.k = "Err" => i = Len(calls) /\ fold_result = calls[i].value
    /\ fold_result.k = "Err" =>
           /\ calls # <<>>
           /\ calls[Len(calls)].value = fold_result
           /\ DOMAIN fold_result = {"k", "error"}
    /\ fold_result.k = "Ok" => \A i \in DOMAIN calls : calls[i].value.k = "Ok"

C23_Witness ==
    /\ fold_result.k = "Err"
    /\ fold_values # <<>>
    /\ Len(calls) >= 3

\* C24: path_fold terminates on every graph new builds: the call returns,
\* and with a combining function that never fails, as those of gate_depth
\* and multi_qubit_gate_depth, it returns its results with the work stack
\* empty.
C24_Terminates ==
    /\ <>(fold_result # NoResult)
    /\ failing = NoResult => <>(fold_result.k = "Ok" /\ fold_stack = <<>>)

C24_Witness ==
    /\ failing = NoResult
    /\ fold_result.k = "Ok"
    /\ Len(fold_result.value) >= 4
    /\ fold_stack = <<>>

\* C25: on a non-empty graph path_fold returns one terminal accumulator
\* for each distinct sequence of nodes from a node without incoming edge to
\* a node without outgoing edge.
C25_OneResultPerPath ==
    fold_result.k = "Ok" /\ built.value.nodes # <<>> =>
        Len(fold_result.value) = Cardinality(Paths(built.value))

\* Without two edges between the same two nodes the count is that of the
\* node sequences.
NoParallelEdges(g) ==
    \A i, j \in DOMAIN g.edges :
        i # j => g.edges[i].source # g.edges[j].source
                    \/ g.edges[i].target # g.edges[j].target

Magnitude(x) == IF x < 0 THEN 0 - x ELSE x

Rendered == op \in {"to_string", "from_str"}

\* C27: the text of a complex Number: the real part alone when the
\* imaginary part is 0; the imaginary part alone, followed by i, when the
\* real part is 0 and the imaginary part is not; otherwise the real part,
\* one sign, + for a positive and - for a negative imaginary part, and the
\* magnitude of the imaginary part followed by i.
C27_ComplexText ==
    Rendered /\ expression.k = "Number" /\ IsExact(expression.value) =>
        LET re == expression.value.re
            im == expression.value.im
        IN  /\ im = 0 => text = format_f64(re)
            /\ re = 0 /\ im # 0 => text = format_f64(im) \o <<Identifier("i")>>
            /\ re # 0 /\ im # 0 =>
                   text = format_f64(re)
                              \o <<Operator(IF im > 0 THEN "+" ELSE "-")>>
                              \o <<Integer(Magnitude(im)), Identifier("i")>>

\* The same on the values whose imaginary part is not negative.
C27_NonNegativeImaginary ==
    Rendered /\ expression.k = "Number" /\ IsExact(expression.value)
        /\ expression.value.im >= 0 => C27_ComplexText

\* Whether a frame matches a condition, by the meaning of the condition.
RECURSIVE Matches(_, _)
Matches(fr, c) ==
    CASE c.k = "All" -> TRUE
      [] c.k = "AnyOfNames" -> fr.name \in c.names
      [] c.k = "AnyOfQubits" -> qubit_set(fr) \cap c.qubits # {}
      [] c.k = "ExactQubits" -> qubit_set(fr) = c.qubits
      [] c.k = "Specific" -> fr = c.frame
      [] c.k = "And" -> \A i \in DOMAIN c.conditions : Matches(fr, c.conditions[i])
      [] c.k = "Or" -> \E i \in DOMAIN c.conditions : Matches(fr, c.conditions[i])

\* C28: get_matching_keys returns only identifiers of the set; for And of a
\* list it returns the frames of the set that match every condition of the
\* list, for Or of a list those that match at least one, whatever the list,
\* the empty list included.
C28_MatchingKeys ==
    op = "get_matching_keys" =>
        /\ matched \subseteq frames
        /\ condition.k \in {"And", "Or"} =>
               matched = {fr \in frames : Matches(fr, condition)}

\* The same without the lists that hold an And of no condition.
RECURSIVE HasEmptyAnd(_)
HasEmptyAnd(c) ==
    /\ c.k \in {"And", "Or"}
    /\ \/ c.k = "And" /\ c.conditions = <<>>
       \/ \E i \in DOMAIN c.conditions : HasEmptyAnd(c.conditions[i])

C28_WithoutEmptyAnd ==
    op = "get_matching_keys" /\ ~HasEmptyAnd(condition) =>
        matched = {fr \in frames : Matches(fr, condition)}

\* A string that starts with a letter or an underscore, goes on with
\* letters, digits, dashes and underscores, and does not end with a dash.
WellFormed(string) ==
    /\ string # <<>>
    /\ string[1] \in Letters \cup {"_"}
    /\ \A i \in 2..Len(string) : string[i] \in Letters \cup Digits \cup {"-", "_"}
    /\ string[Len(string)] # "-"

\* C29: validate_identifier accepts exactly the well-formed strings and
\* rejects every other string as Invalid; validate_user_identifier returns
\* Err(Reserved) for every reserved token and for every other string the
\* result of validate_identifier.
C29_Identifiers ==
    /\ op = "validate_identifier" =>
           validity = IF WellFormed(ident) THEN Ok(TRUE) ELSE Err(Invalid(ident))
    /\ op = "validate_user_identifier" =>
           validity = IF ident \in ReservedTokens THEN Err(Reserved(ident))
                      ELSE IF WellFormed(ident) THEN Ok(TRUE)
                      ELSE Err(Invalid(ident))

C29_Witness ==
    /\ op = "validate_identifier"
    /\ Len(ident) = 3
    /\ ident[2] = "-"
    /\ validity = Ok(TRUE)

C29_ReservedWitness ==
    /\ op = "validate_user_identifier"
    /\ ident = <<"p", "i">>
    /\ validity = Err(Reserved(<<"p", "i">>))

\* The lengths of the runs of consecutive Gate instructions of a body.
RunLengths(body) ==
    {j - i + 1 : <<i, j>> \in
        {r \in (DOMAIN body) \X (DOMAIN body) :
            r[1] <= r[2] /\ \A n \in r[1]..r[2] : body[n].k = "Gate"}}

\* C30: gate_depth of the program-stats crate returns the length of the
\* longest run of consecutive Gate instructions of the body, a run ending
\* at every instruction that is not a gate, and 0 for a body without gate.
C30_LongestRun ==
    op = "successive_gate_depth" =>
        /\ depth = Maximum(RunLengths(instructions) \cup {0})
        /\ GateCount(instructions) = 0 => depth = 0

C30_Witness ==
    /\ op = "successive_gate_depth"
    /\ GateCount(instructions) = 3
    /\ instructions[3].k # "Gate"
    /\ depth = 2

====
